---- MODULE Spec2Model ----
(***************************************************************************)
(* Model of src/src/Broker/index.js: the member broker.  Three inbound     *)
(* handlers (POST /member, PUT /member/:memberId, DELETE /member/:memberId)*)
(* run createMember / updateMember / deleteMember, each of which performs  *)
(* getMember (lookup) and then one mutating fetch, authorising every fetch *)
(* with getAccessToken, which memoises one token set process-wide.         *)
(*                                                                         *)
(* Each inbound request occupies a slot r.  A slot suspends at every       *)
(* network round trip (client.grant, fetch); the code between two          *)
(* suspensions runs without interleaving (one JavaScript thread).          *)
(***************************************************************************)
EXTENDS Naturals, Integers, Sequences, FiniteSets, TLC

\* ---------------------------------------------------------------- bounds
\* inbound requests accepted in one run
MaxRequests == 2
\* the clock stops here
MaxTime == 1

\* slots for inbound requests in flight at the same time
Reqs == {1, 2}

\* ---------------------------------------------------------------- values
Absent == "<absent>"
MemberIds == {"m1"}
Names == {"Alice"}
Emails == {"a@x.com"}

\* process.env.UMBRACO_MEMBER_GROUP_REGULAR_ID / _VIP_ID / _MEMBER_TYPE_ID
REGULAR_ID == "regular"
VIP_ID == "vip"
MEMBER_TYPE_ID == "memberType"

\* the lifetimes (expires_in) the token endpoint grants
Lifetimes == {1}

\* statuses the downstream API answers with besides 200
ErrStatuses == {500}

StatusText(s) ==
    CASE s = 200 -> "OK"
      [] s = 400 -> "Bad Request"
      [] s = 404 -> "Not Found"
      [] s = 500 -> "Internal Server Error"
      [] OTHER -> ""

VARIABLES tokenSet, now, issued, store, nextId, pc, op, net, res, crashed, nreq

vars == <<tokenSet, now, issued, store, nextId, pc, op, net, res, crashed, nreq>>

\* let tokenSet = null
NoToken == [access_token |-> 0, expires_at |-> 0]

NoMember == [id |-> 0, email |-> "", memberId |-> "", name |-> ""]

NoResource == [email |-> "", username |-> "", memberType |-> "", isApproved |-> FALSE,
               groups |-> <<>>, values |-> <<>>, variants |-> <<>>, password |-> FALSE]

NoRequest == [method |-> "", id |-> 0, filter |-> "", token |-> 0, body |-> NoResource]

NoResp == [status |-> 0, statusText |-> "", json |-> FALSE, total |-> 0, items |-> <<>>]

NoRes == [status |-> 0, body |-> ""]

NoData == [memberId |-> Absent, name |-> Absent, email |-> Absent, isVip |-> Absent]

NoOp == [kind |-> "none", data |-> NoData,
         memberId |-> "", name |-> "", email |-> "", isVip |-> FALSE,
         member |-> NoMember, umbracoMember |-> NoResource, calls |-> <<>>,
         lookups |-> 0, mutations |-> 0, grantFailed |-> FALSE,
         lkResp |-> NoResp, lkExisted |-> FALSE, lkOutcome |-> "none",
         muResp |-> NoResp]

Max(a, b) == IF a >= b THEN a ELSE b

\* openid-client TokenSet.expired(): expires_in = max(expires_at - now, 0) is 0
expired(ts) == Max(ts.expires_at - now, 0) = 0

\* line 22 without the expiry test
needsGrant_noExpiry == tokenSet = NoToken

\* line 22 always taking the grant branch
needsGrant_always == TRUE

\* the condition of line 22
needsGrant == tokenSet = NoToken \/ expired(tokenSet)

\* JavaScript falsiness of a body property (missing or empty string)
Falsy(v) == v = Absent \/ v = ""

\* data.isVip ?? false
isVipOrFalse(v) == IF v = Absent THEN FALSE ELSE v = "true"

\* the model with the VIP group never assigned
umbracoMemberModel_regularOnly(memberId, name, email, isVip) ==
    [email |-> email,
     username |-> memberId,
     memberType |-> MEMBER_TYPE_ID,
     isApproved |-> TRUE,
     groups |-> <<REGULAR_ID>>,
     values |-> <<[alias |-> "lastSyncMessage", value |-> now]>>,
     variants |-> <<[name |-> name]>>,
     password |-> FALSE]

umbracoMemberModel(memberId, name, email, isVip) ==
    LET groupIds == IF isVip THEN <<REGULAR_ID, VIP_ID>> ELSE <<REGULAR_ID>>
    IN [email |-> email,
        username |-> memberId,
        memberType |-> MEMBER_TYPE_ID,
        isApproved |-> TRUE,
        groups |-> groupIds,
        values |-> <<[alias |-> "lastSyncMessage", value |-> now]>>,
        variants |-> <<[name |-> name]>>,
        password |-> FALSE]

\* a member the downstream system holds that the broker's callers never name
Resident == [id |-> 1, username |-> "m0", email |-> "b@x.com", name |-> "Bob",
             groups |-> <<REGULAR_ID>>]

Init ==
    /\ tokenSet = NoToken
    /\ now = 0
    /\ issued = 0
    /\ store = {Resident}
    /\ nextId = 2
    /\ pc = [r \in Reqs |-> "idle"]
    /\ op = [r \in Reqs |-> NoOp]
    /\ net = [r \in Reqs |-> NoRequest]
    /\ res = [r \in Reqs |-> NoRes]
    /\ crashed = FALSE
    /\ nreq = 0

\* A slot whose inbound request has been answered is released by the next
\* step of the program: the handler has returned and nothing refers to the
\* request any more.  A slot whose operation can no longer settle stays
\* occupied for ever ("hung"), but nothing reads its record again.
pcR == [q \in Reqs |-> IF pc[q] = "done" THEN "idle" ELSE pc[q]]
opR == [q \in Reqs |-> IF pc[q] \in {"done", "hung"} THEN NoOp ELSE op[q]]
resR == [q \in Reqs |-> IF pc[q] = "done" THEN NoRes ELSE res[q]]

\* ------------------------------------------------- outbound requests
GrantRequest == [method |-> "GRANT", id |-> 0, filter |-> "", token |-> 0, body |-> NoResource]

\* the GET of getMember: filter/member?filter=${memberId}&take=1
lookupRequest(o, accessToken) ==
    [method |-> "GET", id |-> 0, filter |-> o.memberId, token |-> accessToken,
     body |-> NoResource]

\* the mutating request addressed by the member id instead of the resolved id
mutationRequest_unresolvedId(o, accessToken) ==
    CASE o.kind = "create" ->
           [method |-> "POST", id |-> 0, filter |-> "", token |-> accessToken,
            body |-> o.umbracoMember]
      [] o.kind = "update" ->
           [method |-> "PUT", id |-> 0, filter |-> o.memberId, token |-> accessToken,
            body |-> o.umbracoMember]
      [] OTHER ->
           [method |-> "DELETE", id |-> 0, filter |-> o.memberId, token |-> accessToken,
            body |-> NoResource]

\* the POST / PUT / DELETE of createMember, updateMember, deleteMember
mutationRequest(o, accessToken) ==
    CASE o.kind = "create" ->
           [method |-> "POST", id |-> 0, filter |-> "", token |-> accessToken,
            body |-> o.umbracoMember]
      [] o.kind = "update" ->
           [method |-> "PUT", id |-> o.member.id, filter |-> "", token |-> accessToken,
            body |-> o.umbracoMember]
      [] OTHER ->
           [method |-> "DELETE", id |-> o.member.id, filter |-> "", token |-> accessToken,
            body |-> NoResource]

\* ------------------------------------------- steps shared by the handlers
\* res.status(status).send(body): the inbound request of slot r is answered
respond(r, o, status, body) ==
    /\ pc' = [pcR EXCEPT ![r] = "done"]
    /\ op' = [opR EXCEPT ![r] = o]
    /\ net' = [net EXCEPT ![r] = NoRequest]
    /\ res' = [resR EXCEPT ![r] = [status |-> status, body |-> body]]
    /\ crashed' = crashed

\* An exception inside an async Promise executor or inside the async then
\* callback: nobody calls resolve or reject, so the operation's promise never
\* settles and the inbound request is never answered.  The rejection is
\* unhandled: depending on the runtime's unhandled-rejections mode the
\* process goes on (warning) or exits.
unhandledRejection(r, o) ==
    /\ pc' = [pcR EXCEPT ![r] = "hung"]
    /\ op' = [opR EXCEPT ![r] = o]
    /\ net' = [net EXCEPT ![r] = NoRequest]
    /\ res' = resR
    /\ crashed' \in BOOLEAN

\* fetch(...) is issued with the access token and the slot suspends on it
fetchWith(r, o, phase, accessToken) ==
    LET rq == IF phase = "lk" THEN lookupRequest(o, accessToken)
                              ELSE mutationRequest(o, accessToken)
        o1 == IF phase = "lk" THEN [o EXCEPT !.lookups = @ + 1]
                              ELSE [o EXCEPT !.mutations = @ + 1]
    IN /\ pc' = [pcR EXCEPT ![r] = IF phase = "lk" THEN "lk_fetch" ELSE "mu_fetch"]
       /\ op' = [opR EXCEPT ![r] = o1]
       /\ net' = [net EXCEPT ![r] = rq]
       /\ res' = [resR EXCEPT ![r] = NoRes]
       /\ crashed' = crashed

\* const accessToken = await getAccessToken(); followed by the fetch.
\* Either the cached token is returned at once (line 29) and the fetch goes
\* out, or client.grant is issued (line 23) and the slot suspends on it.
getAccessToken(r, o, phase) ==
    LET held == tokenSet.access_token
        stale == tokenSet = NoToken \/ Max(tokenSet.expires_at - now, 0) = 0
    IN IF needsGrant
       THEN /\ pc' = [pcR EXCEPT ![r] = IF phase = "lk" THEN "lk_grant" ELSE "mu_grant"]
            /\ op' = [opR EXCEPT ![r] = [o EXCEPT !.calls = Append(@,
                        [held |-> held, stale |-> stale, at |-> issued, grants |-> 1, ret |-> 0,
                         cache |-> 0])]]
            /\ net' = [net EXCEPT ![r] = GrantRequest]
            /\ res' = [resR EXCEPT ![r] = NoRes]
            /\ crashed' = crashed
       ELSE fetchWith(r, [o EXCEPT !.calls = Append(@,
                        [held |-> held, stale |-> stale, at |-> issued, grants |-> 0,
                         ret |-> tokenSet.access_token,
                         cache |-> tokenSet.access_token])],
                      phase, tokenSet.access_token)

\* getMember(memberId) up to its first suspension
getMember(r, o) == getAccessToken(r, o, "lk")

\* ------------------------------------------------------ inbound handlers
newOp(kind, data, memberId) ==
    [NoOp EXCEPT !.kind = kind, !.data = data, !.memberId = memberId,
                 !.name = data.name, !.email = data.email,
                 !.isVip = isVipOrFalse(data.isVip)]

\* request bodies of POST /member: complete ones, and ones with a required
\* property missing or empty
PostBodies ==
    [memberId : MemberIds, name : Names, email : Emails, isVip : {Absent, "true"}]
    \cup {[memberId |-> Absent, name |-> n, email |-> e, isVip |-> Absent] :
              n \in Names, e \in Emails}
    \cup {[memberId |-> m, name |-> Absent, email |-> e, isVip |-> Absent] :
              m \in MemberIds, e \in Emails}
    \cup {[memberId |-> m, name |-> n, email |-> e, isVip |-> Absent] :
              m \in MemberIds, n \in Names, e \in {Absent, ""}}

\* request bodies of PUT /member/:memberId (the id comes from the path)
PutBodies ==
    [memberId : {Absent}, name : Names, email : Emails, isVip : {Absent, "true"}]
    \cup {[memberId |-> Absent, name |-> Absent, email |-> e, isVip |-> Absent] :
              e \in Emails}
    \cup {[memberId |-> Absent, name |-> n, email |-> Absent, isVip |-> Absent] :
              n \in Names}

\* a new inbound request takes the first free slot (slots are interchangeable)
free(r) ==
    /\ pc[r] \in {"idle", "done"}
    /\ \A q \in Reqs : q < r => pc[q] \notin {"idle", "done"}

\* POST /member validating email and name only
app_post_noIdCheck(r, data) ==
    /\ ~crashed
    /\ free(r)
    /\ nreq < MaxRequests
    /\ nreq' = nreq + 1
    /\ IF Falsy(data.email) \/ Falsy(data.name)
       THEN respond(r, newOp("create", data, data.memberId), 400,
                    "Malformed request body (missing required member properties)")
       ELSE getMember(r, newOp("create", data, data.memberId))
    /\ UNCHANGED <<tokenSet, now, issued, store, nextId>>

app_post(r, data) ==
    /\ ~crashed
    /\ free(r)
    /\ nreq < MaxRequests
    /\ nreq' = nreq + 1
    /\ IF Falsy(data.email) \/ Falsy(data.name) \/ Falsy(data.memberId)
       THEN respond(r, newOp("create", data, data.memberId), 400,
                    "Malformed request body (missing required member properties)")
       ELSE getMember(r, newOp("create", data, data.memberId))
    /\ UNCHANGED <<tokenSet, now, issued, store, nextId>>

app_put(r, memberId, data) ==
    /\ ~crashed
    /\ free(r)
    /\ nreq < MaxRequests
    /\ nreq' = nreq + 1
    /\ IF Falsy(data.email) \/ Falsy(data.name)
       THEN respond(r, newOp("update", data, memberId), 400,
                    "Malformed request body (missing required member properties)")
       ELSE getMember(r, newOp("update", data, memberId))
    /\ UNCHANGED <<tokenSet, now, issued, store, nextId>>

app_delete(r, memberId) ==
    /\ ~crashed
    /\ free(r)
    /\ nreq < MaxRequests
    /\ nreq' = nreq + 1
    /\ getMember(r, newOp("delete", NoData, memberId))
    /\ UNCHANGED <<tokenSet, now, issued, store, nextId>>

\* ------------------------------------------------------- token endpoint
\* the grant's token set stored only when none is held
grantReturns_keepFirst(r) ==
    /\ ~crashed
    /\ pc[r] \in {"lk_grant", "mu_grant"}
    /\ \/ \E ttl \in Lifetimes :
            LET ts == IF tokenSet = NoToken
                      THEN [access_token |-> issued + 1, expires_at |-> now + ttl]
                      ELSE tokenSet
                n == Len(op[r].calls)
                o1 == [op[r] EXCEPT !.calls[n].ret = ts.access_token,
                                    !.calls[n].cache = ts.access_token]
            IN /\ tokenSet' = ts
               /\ issued' = issued + 1
               /\ fetchWith(r, o1, IF pc[r] = "lk_grant" THEN "lk" ELSE "mu",
                            ts.access_token)
       \/ /\ unhandledRejection(r, [op[r] EXCEPT !.grantFailed = TRUE])
          /\ UNCHANGED <<tokenSet, issued>>
    /\ UNCHANGED <<now, store, nextId, nreq>>

\* the access token read before the grant is the one returned
grantReturns_staleReturn(r) ==
    /\ ~crashed
    /\ pc[r] \in {"lk_grant", "mu_grant"}
    /\ \/ \E ttl \in Lifetimes :
            LET ts == [access_token |-> issued + 1, expires_at |-> now + ttl]
                n == Len(op[r].calls)
                o1 == [op[r] EXCEPT !.calls[n].ret = op[r].calls[n].held,
                                    !.calls[n].cache = ts.access_token]
            IN /\ tokenSet' = ts
               /\ issued' = issued + 1
               /\ fetchWith(r, o1, IF pc[r] = "lk_grant" THEN "lk" ELSE "mu",
                            op[r].calls[n].held)
       \/ /\ unhandledRejection(r, [op[r] EXCEPT !.grantFailed = TRUE])
          /\ UNCHANGED <<tokenSet, issued>>
    /\ UNCHANGED <<now, store, nextId, nreq>>

\* a rejected grant invalidating the held token set
grantReturns_clearsOnFailure(r) ==
    /\ ~crashed
    /\ pc[r] \in {"lk_grant", "mu_grant"}
    /\ \/ \E ttl \in Lifetimes :
            LET ts == [access_token |-> issued + 1, expires_at |-> now + ttl]
                n == Len(op[r].calls)
                o1 == [op[r] EXCEPT !.calls[n].ret = ts.access_token,
                                    !.calls[n].cache = ts.access_token]
            IN /\ tokenSet' = ts
               /\ issued' = issued + 1
               /\ fetchWith(r, o1, IF pc[r] = "lk_grant" THEN "lk" ELSE "mu",
                            ts.access_token)
       \/ /\ unhandledRejection(r, [op[r] EXCEPT !.grantFailed = TRUE])
          /\ tokenSet' = NoToken
          /\ UNCHANGED issued
    /\ UNCHANGED <<now, store, nextId, nreq>>

\* client.grant settles: the token set is stored (line 23), its access
\* token returned (line 29) and the pending fetch issued; or the grant is
\* rejected and the await throws.
grantReturns(r) ==
    /\ ~crashed
    /\ pc[r] \in {"lk_grant", "mu_grant"}
    /\ \/ \E ttl \in Lifetimes :
            LET ts == [access_token |-> issued + 1, expires_at |-> now + ttl]
                n == Len(op[r].calls)
            IN /\ tokenSet' = ts
               /\ issued' = issued + 1
               /\ fetchWith(r, [op[r] EXCEPT !.calls[n].ret = tokenSet'.access_token,
                                             !.calls[n].cache = tokenSet'.access_token],
                            IF pc[r] = "lk_grant" THEN "lk" ELSE "mu",
                            tokenSet'.access_token)
       \/ /\ unhandledRejection(r, [op[r] EXCEPT !.grantFailed = TRUE])
          /\ UNCHANGED <<tokenSet, issued>>
    /\ UNCHANGED <<now, store, nextId, nreq>>

\* ------------------------------------------------------ downstream API
\* the member search: members whose username is the filter, take=1
DownstreamSearch(filter) ==
    LET hits == {m \in store : m.username = filter}
    IN [status |-> 200, statusText |-> StatusText(200), json |-> TRUE,
        total |-> Cardinality(hits),
        items |-> IF hits = {} THEN <<>>
                  ELSE LET m == CHOOSE x \in hits : TRUE
                       IN <<[id |-> m.id, email |-> m.email, username |-> m.username,
                             variants |-> <<[name |-> m.name]>>]>>]

ErrorResponse(s, json) ==
    [status |-> s, statusText |-> StatusText(s), json |-> json, total |-> 0, items |-> <<>>]

OkResponse == ErrorResponse(200, TRUE)

\* the failures any downstream call may answer with
Failures == {ErrorResponse(s, j) : s \in ErrStatuses, j \in BOOLEAN}

\* the member a POST / PUT body describes, stored under id
Stored(id, body) ==
    [id |-> id, username |-> body.username, email |-> body.email,
     name |-> body.variants[1].name, groups |-> body.groups]

\* response.ok
ok(resp) == resp.status \in 200..299

\* -------------------------------------- continuations of the operations
\* createMember without the existence guard of lines 82-85
createMember_noGuard(r, o, member) ==
    LET um == [umbracoMemberModel(o.memberId, o.name, o.email, o.isVip)
                  EXCEPT !.password = TRUE]
    IN getAccessToken(r, [o EXCEPT !.umbracoMember = um], "mu")

\* the then-callback of createMember (lines 81-102), up to its suspension
createMember(r, o, member) ==
    IF member # NoMember
    THEN respond(r, o, 409, "Member already exists")
    ELSE LET um == [umbracoMemberModel(o.memberId, o.name, o.email, o.isVip)
                       EXCEPT !.password = TRUE]
         IN getAccessToken(r, [o EXCEPT !.umbracoMember = um], "mu")

\* the then-callback of updateMember (lines 119-138), up to its suspension
updateMember(r, o, member) ==
    IF member = NoMember
    THEN respond(r, o, 404, "No such member")
    ELSE LET um == umbracoMemberModel(o.memberId, o.name, o.email, o.isVip)
         IN getAccessToken(r, [o EXCEPT !.umbracoMember = um], "mu")

\* deleteMember without the guard of lines 156-159
deleteMember_noGuard(r, o, member) == getAccessToken(r, o, "mu")

\* the then-callback of deleteMember (lines 155-170), up to its suspension
deleteMember(r, o, member) ==
    IF member = NoMember
    THEN respond(r, o, 404, "No such member")
    ELSE getAccessToken(r, o, "mu")

\* getMember treating an empty result set as a failure
getMemberSettles_emptyFails(r, o, response) ==
    IF ok(response) /\ response.total # 0
    THEN LET item == response.items[1]
             member == [id |-> item.id, email |-> item.email,
                        memberId |-> item.username, name |-> item.variants[1].name]
             o1 == [o EXCEPT !.member = member, !.lkOutcome = "resolved"]
         IN CASE o.kind = "create" -> createMember(r, o1, member)
              [] o.kind = "update" -> updateMember(r, o1, member)
              [] OTHER -> deleteMember(r, o1, member)
    ELSE respond(r, [o EXCEPT !.lkOutcome = "rejected"],
                 IF ok(response) THEN 404 ELSE response.status,
                 IF ok(response) THEN StatusText(404) ELSE response.statusText)

\* getMember resolving null on a failed search instead of rejecting
getMemberSettles_failureIsNull(r, o, response) ==
    LET member == IF ~ok(response) \/ response.total = 0 THEN NoMember
                  ELSE LET item == response.items[1]
                       IN [id |-> item.id, email |-> item.email,
                           memberId |-> item.username,
                           name |-> item.variants[1].name]
        o1 == [o EXCEPT !.member = member, !.lkOutcome = "resolved"]
    IN CASE o.kind = "create" -> createMember(r, o1, member)
         [] o.kind = "update" -> updateMember(r, o1, member)
         [] OTHER -> deleteMember(r, o1, member)

\* getMember after its fetch (lines 199-219) and the caller's callbacks
getMemberSettles(r, o, response) ==
    IF ok(response)
    THEN LET result == response
             member == IF result.total = 0 THEN NoMember
                       ELSE LET item == result.items[1]
                            IN [id |-> item.id, email |-> item.email,
                                memberId |-> item.username,
                                name |-> item.variants[1].name]
             o1 == [o EXCEPT !.member = member, !.lkOutcome = "resolved"]
         IN CASE o.kind = "create" -> createMember(r, o1, member)
              [] o.kind = "update" -> updateMember(r, o1, member)
              [] OTHER -> deleteMember(r, o1, member)
    ELSE \* reject({code, description}); the caller passes it on: (error) => reject(error)
         respond(r, [o EXCEPT !.lkOutcome = "rejected"],
                 response.status, response.statusText)

\* the fetch of getMember settles
getMemberResponse(r) ==
    /\ ~crashed
    /\ pc[r] = "lk_fetch"
    /\ LET existed == \E m \in store : m.username = net[r].filter
       IN \/ \E response \in {DownstreamSearch(net[r].filter)} \cup Failures :
               getMemberSettles(r, [op[r] EXCEPT !.lkResp = response,
                                                 !.lkExisted = existed], response)
          \/ \* fetch rejects (network failure)
             unhandledRejection(r, [op[r] EXCEPT !.lkOutcome = "hung"])
    /\ UNCHANGED <<tokenSet, now, issued, store, nextId, nreq>>

\* the mutating fetch issued once more after a failure
mutationSettles_retry(r, o, response) ==
    IF ok(response)
    THEN respond(r, o, 200, "")
    ELSE IF o.mutations < 2
         THEN fetchWith(r, o, "mu", net[r].token)
         ELSE respond(r, o, response.status, response.statusText)

\* lines 104-111 (140-147, 172-179): the outcome of the mutating fetch
mutationSettles(r, o, response) ==
    IF ok(response)
    THEN respond(r, o, 200, "")
    ELSE IF response.json
         THEN respond(r, o, response.status, response.statusText)
         ELSE \* await response.json() throws
              unhandledRejection(r, o)

\* the POST of createMember settles
createMemberResponse(r) ==
    /\ ~crashed
    /\ pc[r] = "mu_fetch"
    /\ net[r].method = "POST"
    /\ \/ /\ ~\E m \in store : m.username = net[r].body.username
          /\ store' = store \cup {Stored(nextId, net[r].body)}
          /\ nextId' = nextId + 1
          /\ mutationSettles(r, [op[r] EXCEPT !.muResp = OkResponse], OkResponse)
       \/ /\ \E response \in Failures \cup
                   IF \E m \in store : m.username = net[r].body.username
                   THEN {ErrorResponse(400, TRUE)} ELSE {} :
               mutationSettles(r, [op[r] EXCEPT !.muResp = response], response)
          /\ UNCHANGED <<store, nextId>>
       \/ /\ unhandledRejection(r, op[r])
          /\ UNCHANGED <<store, nextId>>
    /\ UNCHANGED <<tokenSet, now, issued, nreq>>

\* the PUT of updateMember settles
updateMemberResponse(r) ==
    /\ ~crashed
    /\ pc[r] = "mu_fetch"
    /\ net[r].method = "PUT"
    /\ \/ /\ \E m \in store : m.id = net[r].id
          /\ store' = {m \in store : m.id # net[r].id} \cup {Stored(net[r].id, net[r].body)}
          /\ mutationSettles(r, [op[r] EXCEPT !.muResp = OkResponse], OkResponse)
       \/ /\ \E response \in Failures \cup
                   IF \E m \in store : m.id = net[r].id
                   THEN {} ELSE {ErrorResponse(404, TRUE)} :
               mutationSettles(r, [op[r] EXCEPT !.muResp = response], response)
          /\ store' = store
       \/ /\ unhandledRejection(r, op[r])
          /\ store' = store
    /\ UNCHANGED <<tokenSet, now, issued, nextId, nreq>>

\* the DELETE of deleteMember settles
deleteMemberResponse(r) ==
    /\ ~crashed
    /\ pc[r] = "mu_fetch"
    /\ net[r].method = "DELETE"
    /\ \/ /\ \E m \in store : m.id = net[r].id
          /\ store' = {m \in store : m.id # net[r].id}
          /\ mutationSettles(r, [op[r] EXCEPT !.muResp = OkResponse], OkResponse)
       \/ /\ \E response \in Failures \cup
                   IF \E m \in store : m.id = net[r].id
                   THEN {} ELSE {ErrorResponse(404, TRUE)} :
               mutationSettles(r, [op[r] EXCEPT !.muResp = response], response)
          /\ store' = store
       \/ /\ unhandledRejection(r, op[r])
          /\ store' = store
    /\ UNCHANGED <<tokenSet, now, issued, nextId, nreq>>

Tick ==
    /\ ~crashed
    /\ now < MaxTime
    /\ now' = now + 1
    /\ pc' = pcR
    /\ op' = opR
    /\ res' = resR
    /\ UNCHANGED <<tokenSet, issued, store, nextId, net, crashed, nreq>>

Next ==
    \/ \E r \in Reqs, data \in PostBodies : app_post(r, data)
    \/ \E r \in Reqs, m \in MemberIds, data \in PutBodies : app_put(r, m, data)
    \/ \E r \in Reqs, m \in MemberIds : app_delete(r, m)
    \/ \E r \in Reqs : grantReturns(r)
    \/ \E r \in Reqs : getMemberResponse(r)
    \/ \E r \in Reqs : createMemberResponse(r)
    \/ \E r \in Reqs : updateMemberResponse(r)
    \/ \E r \in Reqs : deleteMemberResponse(r)
    \/ Tick

Spec == Init /\ [][Next]_vars

\* ================================================================ claims
Range(f) == {f[i] : i \in DOMAIN f}

GroupsFor(isVip) == IF isVip THEN {REGULAR_ID, VIP_ID} ELSE {REGULAR_ID}

Calls == {<<r, i>> \in Reqs \X (1..2) : i <= Len(op[r].calls)}

\* C1: every call of getAccessToken issues exactly one grant request when no
\* token is held or the held token is expired at the call, and none otherwise;
\* without a grant it returns the access token held at the call; with a grant
\* that succeeds it returns the token of that grant, a new one.
C1_TokenMemo ==
    \A c \in Calls :
        LET call == op[c[1]].calls[c[2]]
        IN /\ call.grants = IF call.held = 0 \/ call.stale THEN 1 ELSE 0
           /\ call.grants = 0 => call.ret = call.held /\ call.ret # 0
           /\ call.grants = 1 /\ call.ret # 0 =>
                 /\ call.ret # call.held
                 /\ call.ret > call.at
                 /\ call.ret <= issued

\* a held token had expired, and the call was answered with a newly granted one
C1_Witness ==
    \E c \in Calls :
        LET call == op[c[1]].calls[c[2]]
        IN call.held # 0 /\ call.stale /\ call.grants = 1 /\ call.ret # 0

\* C2: a create whose lookup is answered successfully while a member with that
\* memberId exists downstream (an earlier create succeeded, no delete since)
\* fails with status 409 and has submitted no creation request.
C2_CreateConflict ==
    \A r \in Reqs :
        op[r].kind = "create" /\ op[r].lkOutcome = "resolved" /\ op[r].lkExisted =>
            /\ pc[r] = "done"
            /\ res[r] = [status |-> 409, body |-> "Member already exists"]
            /\ op[r].mutations = 0
            /\ net[r] = NoRequest

C2_Witness ==
    \E r \in Reqs :
        /\ op[r].kind = "create" /\ op[r].lkOutcome = "resolved" /\ op[r].lkExisted
        /\ res[r].status = 409
        /\ \E m \in store : m.username = op[r].memberId

\* C3: an update or delete whose lookup returns no member fails with status
\* 404 and has issued no mutating request.
C3_NotFound ==
    \A r \in Reqs :
        /\ op[r].kind \in {"update", "delete"}
        /\ op[r].lkOutcome = "resolved"
        /\ op[r].member = NoMember
        => /\ pc[r] = "done"
           /\ res[r].status = 404
           /\ op[r].mutations = 0
           /\ net[r] = NoRequest

C3_Witness ==
    \E r \in Reqs :
        /\ op[r].kind = "delete" /\ op[r].lkOutcome = "resolved"
        /\ op[r].member = NoMember /\ res[r].status = 404

\* C4 (as claimed): an operation during which the client-credentials grant
\* failed has ended with a classified error, a status and a description,
\* answering its caller.
C4_GrantFailureSurfaces ==
    \A r \in Reqs :
        op[r].grantFailed => pc[r] = "done" /\ res[r].status # 0 /\ res[r].body # ""

\* C5 (as claimed): a create whose creation request was answered with a
\* non-success status S has failed with status S, and a token is still held.
C5_CreateFailureStatus ==
    \A r \in Reqs :
        op[r].kind = "create" /\ op[r].muResp # NoResp /\ ~ok(op[r].muResp) =>
            /\ pc[r] = "done"
            /\ res[r].status = op[r].muResp.status
            /\ tokenSet # NoToken

InvalidBody(o) ==
    \/ o.kind = "create" /\ \E f \in {o.data.email, o.data.name, o.data.memberId} : Falsy(f)
    \/ o.kind = "update" /\ \E f \in {o.data.email, o.data.name} : Falsy(f)

\* C6: a POST /member whose body lacks email, name or memberId, or a PUT
\* whose body lacks email or name, is answered 400 and has made no outbound
\* call: no grant request, no lookup, no mutating request.
C6_MalformedRejected ==
    \A r \in Reqs :
        InvalidBody(op[r]) =>
            /\ pc[r] = "done"
            /\ res[r].status = 400
            /\ op[r].calls = <<>>
            /\ op[r].lookups = 0
            /\ op[r].mutations = 0
            /\ net[r] = NoRequest

C6_Witness ==
    \E r \in Reqs :
        /\ op[r].kind = "create" /\ Falsy(op[r].data.memberId)
        /\ ~Falsy(op[r].data.email) /\ ~Falsy(op[r].data.name)
        /\ res[r].status = 400

\* C7: every PUT or DELETE request sent downstream is addressed by the id the
\* downstream search returned for the operation's memberId earlier in the
\* same operation: a successful lookup with a non-empty result precedes it.
C7_ResolvedId ==
    \A r \in Reqs :
        net[r].method \in {"PUT", "DELETE"} =>
            /\ op[r].lookups = 1
            /\ op[r].lkOutcome = "resolved"
            /\ ok(op[r].lkResp)
            /\ op[r].lkResp.total > 0
            /\ op[r].lkResp.items[1].username = op[r].memberId
            /\ net[r].id = op[r].lkResp.items[1].id
            /\ net[r].filter = ""

C7_Witness ==
    \E r \in Reqs : net[r].method = "PUT" /\ net[r].id # 0

\* C8: right after create(id, name, email, isVip) has succeeded, the lookup of
\* id finds a member whose group list is exactly {regular, VIP} when isVip and
\* exactly {regular} otherwise; and every resource sent downstream contains
\* the regular group, and the VIP group iff isVip.
C8_Groups ==
    \A r \in Reqs :
        /\ net[r].method \in {"POST", "PUT"} =>
              Range(net[r].body.groups) = GroupsFor(op[r].data.isVip = "true")
        /\ op[r].kind = "create" /\ pc[r] = "done" /\ res[r].status = 200 =>
              LET found == DownstreamSearch(op[r].memberId)
              IN /\ found.total = 1
                 /\ \E m \in store :
                       /\ m.id = found.items[1].id
                       /\ m.username = op[r].memberId
                       /\ Range(m.groups) = GroupsFor(op[r].data.isVip = "true")

C8_Witness ==
    \E r \in Reqs :
        /\ op[r].kind = "create" /\ pc[r] = "done" /\ res[r].status = 200
        /\ op[r].data.isVip = "true"
        /\ \E m \in store : Range(m.groups) = {REGULAR_ID, VIP_ID}

\* C9: a lookup of a memberId for which no member exists downstream, answered
\* by the search with a success status, returns null: it resolves, it does not
\* fail.
C9_LookupNull ==
    \A r \in Reqs :
        ok(op[r].lkResp) /\ ~op[r].lkExisted =>
            /\ op[r].lkOutcome = "resolved"
            /\ op[r].member = NoMember
            /\ op[r].kind = "create" => res[r].status # 409
            /\ op[r].kind \in {"update", "delete"} => res[r].status = 404

C9_Witness ==
    \E r \in Reqs :
        /\ ok(op[r].lkResp) /\ ~op[r].lkExisted /\ store # {}
        /\ op[r].kind = "create" /\ pc[r] = "mu_fetch"

\* C10 (as claimed): an operation one of whose downstream calls was answered
\* with a non-success status and no JSON body has failed with that status
\* and the HTTP status text as description.
C10_NoJsonBodyDegrades ==
    \A r \in Reqs :
        \A resp \in {op[r].lkResp, op[r].muResp} :
            resp # NoResp /\ ~ok(resp) /\ ~resp.json =>
                /\ pc[r] = "done"
                /\ res[r] = [status |-> resp.status, body |-> resp.statusText]

\* C11: an operation issues at most one lookup request and at most one
\* mutating request, the mutating one only after its lookup has resolved, and
\* has no request in flight once it has failed or succeeded (no retry).
C11_OneLookupOneMutation ==
    \A r \in Reqs :
        /\ op[r].lookups <= 1
        /\ op[r].mutations <= 1
        /\ op[r].mutations = 1 => op[r].lookups = 1 /\ op[r].lkOutcome = "resolved"
        /\ pc[r] = "lk_fetch" => op[r].lookups = 1 /\ op[r].mutations = 0
        /\ pc[r] = "mu_fetch" => op[r].mutations = 1
        /\ pc[r] \in {"idle", "done", "hung"} => net[r] = NoRequest

\* a mutating request failed and the operation ended without another request
C11_Witness ==
    \E r \in Reqs :
        /\ pc[r] = "done" /\ res[r].status = 500
        /\ op[r].lookups = 1 /\ op[r].mutations = 1
        /\ ~ok(op[r].muResp) /\ net[r] = NoRequest

GrantsOf(o) == Cardinality({i \in DOMAIN o.calls : o.calls[i].grants = 1})

\* C12 (as claimed): an operation causes at most one token grant request.
C12_OneGrantPerOperation ==
    \A r \in Reqs : GrantsOf(op[r]) <= 1

\* C12 (amended): an operation calls getAccessToken at most twice, once
\* before the lookup and once before the mutating request; each call causes
\* at most one grant request, so an operation causes at most two, and the
\* second call causes one only when the token is absent or expired then.
C12_OneGrantPerCall ==
    \A r \in Reqs :
        /\ Len(op[r].calls) <= 2
        /\ Len(op[r].calls) <= op[r].lookups + op[r].mutations + 1
        /\ GrantsOf(op[r]) <= 2
        /\ \A i \in DOMAIN op[r].calls :
              /\ op[r].calls[i].grants \in {0, 1}
              /\ i = 2 /\ op[r].calls[i].grants = 1 => op[r].calls[i].stale

\* the token granted for the lookup had expired at the mutating call
C12_Witness ==
    \E r \in Reqs :
        /\ GrantsOf(op[r]) = 2
        /\ op[r].calls[2].held = op[r].calls[1].ret

LastCall(r) == op[r].calls[Len(op[r].calls)]

Fetching(r) == pc[r] \in {"lk_fetch", "mu_fetch"}

\* C13: when requests in flight at the same time each issue a grant request
\* (a duplicate token fetch), each goes on with the access token its own
\* grant returned, the tokens of two grants differ, and the cache holds the
\* token of the grant that completed last.
C13_DuplicateGrant ==
    /\ issued = 0 => tokenSet = NoToken
    /\ issued > 0 => tokenSet.access_token = issued
    /\ \A r \in Reqs :
          Fetching(r) /\ LastCall(r).grants = 1 =>
              /\ LastCall(r).ret \in (LastCall(r).at + 1)..issued
              /\ net[r].token = LastCall(r).ret
    /\ \A r1, r2 \in Reqs :
          /\ r1 # r2 /\ Fetching(r1) /\ Fetching(r2)
          /\ LastCall(r1).grants = 1 /\ LastCall(r2).grants = 1
          => LastCall(r1).ret # LastCall(r2).ret

\* both requests issued a grant before either grant had completed, both
\* went on, and the cache holds the later token
C13_Witness ==
    \E r1, r2 \in Reqs :
        /\ r1 # r2 /\ Fetching(r1) /\ Fetching(r2)
        /\ LastCall(r1).grants = 1 /\ LastCall(r2).grants = 1
        /\ LastCall(r1).at = LastCall(r2).at
        /\ LastCall(r1).ret < LastCall(r2).ret
        /\ net[r1].token = LastCall(r1).ret /\ net[r2].token = LastCall(r2).ret
        /\ tokenSet.access_token = LastCall(r2).ret

\* C14 (as claimed): no operation whose outbound calls have all returned, a
\* response or an error, is left unable to settle: every request is either
\* still waiting for an outbound call or has been answered.
C14_RunsToCompletion ==
    \A r \in Reqs : pc[r] # "hung"

\* C15: the token cache changes only by storing the token set of a grant that
\* succeeded: a held token set is never cleared, a rejected grant leaves the
\* cache as it was, and no step that settles a lookup or a mutating request
\* changes it.
C15_CacheFrame ==
    [][/\ tokenSet # NoToken => tokenSet' # NoToken
       /\ tokenSet' # tokenSet =>
             /\ issued' = issued + 1
             /\ tokenSet'.access_token = issued'
             /\ \E r \in Reqs :
                   /\ pc[r] \in {"lk_grant", "mu_grant"}
                   /\ pc'[r] \in {"lk_fetch", "mu_fetch"}
       /\ \A r \in Reqs :
             /\ pc[r] \in {"lk_grant", "mu_grant"} /\ pc'[r] = "hung"
                   => tokenSet' = tokenSet
             /\ pc[r] \in {"lk_fetch", "mu_fetch"} /\ pc'[r] # pc[r]
                   => tokenSet' = tokenSet
             /\ pc[r] \in {"idle", "done"} /\ pc'[r] \notin {"idle", "done"}
                   => tokenSet' = tokenSet]_vars

\* a grant was rejected while a token set was held
C15_Witness ==
    \E r \in Reqs : op[r].grantFailed /\ pc[r] = "hung" /\ tokenSet # NoToken

\* C16: when the lookup inside create, update or delete is answered with a
\* non-success status S, the operation fails with status S (and the status
\* text) and issues no mutating request.
C16_LookupFailurePropagates ==
    \A r \in Reqs :
        op[r].lkResp # NoResp /\ ~ok(op[r].lkResp) =>
            /\ op[r].lkOutcome = "rejected"
            /\ pc[r] = "done"
            /\ res[r] = [status |-> op[r].lkResp.status, body |-> op[r].lkResp.statusText]
            /\ op[r].mutations = 0
            /\ Len(op[r].calls) = 1
            /\ net[r] = NoRequest

C16_Witness ==
    \E r \in Reqs :
        /\ op[r].kind = "create" /\ op[r].lkResp.status = 500 /\ ~op[r].lkResp.json
        /\ res[r].status = 500 /\ op[r].mutations = 0

Posting(r) == net[r].method = "POST"

\* C17 (as claimed): a creation request is never in flight for a memberId
\* for which another creation request is in flight or a member exists
\* downstream.
C17_GuardUnderInterleaving ==
    /\ \A r1, r2 \in Reqs :
          r1 # r2 /\ Posting(r1) /\ Posting(r2) =>
              net[r1].body.username # net[r2].body.username
    /\ \A r \in Reqs :
          Posting(r) => ~\E m \in store : m.username = net[r].body.username

\* C17 (amended): the existence guard holds for the lookup of the same
\* create only: a creation request is submitted only by a create whose own
\* lookup resolved with no member, at a moment when none existed downstream.
C17_GuardAtLookup ==
    \A r \in Reqs :
        Posting(r) =>
            /\ op[r].kind = "create"
            /\ op[r].lkOutcome = "resolved"
            /\ op[r].member = NoMember
            /\ ok(op[r].lkResp) /\ op[r].lkResp.total = 0
            /\ ~op[r].lkExisted
            /\ net[r].body.username = op[r].memberId

\* two creates of the same memberId each found no member and each submitted
\* a creation request
C17_Witness ==
    \E r1, r2 \in Reqs :
        /\ r1 # r2 /\ Posting(r1) /\ Posting(r2)
        /\ net[r1].body.username = net[r2].body.username
        /\ ~op[r1].lkExisted /\ ~op[r2].lkExisted

MemberApi == {"GET", "POST", "PUT", "DELETE"}

\* C18: every member-API request in flight was issued after the
\* getAccessToken call of its phase returned (the first call for the lookup,
\* the second for the mutating request) and carries the access token that
\* call returned: one produced by a grant and held in the cache at that
\* moment, never an absent one.
C18_BearerToken ==
    \A r \in Reqs :
        net[r].method \in MemberApi =>
            /\ Len(op[r].calls) = IF net[r].method = "GET" THEN 1 ELSE 2
            /\ net[r].token # 0
            /\ net[r].token \in 1..issued
            /\ net[r].token = LastCall(r).ret
            /\ net[r].token = LastCall(r).cache

\* a mutating request carries a token granted within its own operation
C18_Witness ==
    \E r \in Reqs :
        /\ net[r].method = "POST"
        /\ LastCall(r).grants = 1
        /\ net[r].token = LastCall(r).ret /\ net[r].token # 0
====
